---- MODULE Spec2Model ----
(***************************************************************************)
(* A model of the ftml footnote renderer (render/html/element/footnotes.rs)*)
(* of the deletion block rule (parsing/rule/impls/block/blocks/del.rs),   *)
(* and of deepwell's page, filter and domain services (services/) and its  *)
(* database seeder (database/seeder/mod.rs).                               *)
(*                                                                         *)
(* A render pass walks an element tree depth first.  The walk is modelled  *)
(* as the sequence of footnote nodes it meets: each step the walker meets  *)
(* either a footnote reference (render_footnote) or a footnote-list block  *)
(* (render_footnote_block), or reaches the end of the tree.  Each pass     *)
(* owns one HtmlContext.                                                   *)
(***************************************************************************)
EXTENDS Integers, Sequences, FiniteSets, TLC

\* The render passes: each pass's HtmlContext, how far it got, the nodes it
\* met, the messages it asked the handle for, and which passes run.
VARIABLES ctx, status, walked, lookups, passes

\* The parser: the block invocation at the parser's position, what parsing
\* it returned, and what parsing it returns under each spelling of its name.
VARIABLES input, result, spelled

\* The database of the page service: the rows of the page, page_category
\* and page_revision tables (a row's ID is its position), and the last call
\* made to the service with what it returned.
VARIABLES page, page_category, page_revision, response

\* The rest of deepwell: the rows of the filter table (a row's ID is its
\* position), the site_domain table (the site each custom domain is
\* registered to), Config.main_domain, the ID sequences of the database and
\* the primary keys the seeded tables hold.
VARIABLES filter, site_domain, main_domain, sequence, ids

render_vars == <<ctx, status, walked, lookups, passes>>

parse_vars == <<input, result, spelled>>

page_vars == <<page, page_category, page_revision, response>>

service_vars == <<filter, site_domain, main_domain, sequence, ids>>

vars == <<ctx, status, walked, lookups, passes, input, result, spelled,
          page, page_category, page_revision, response,
          filter, site_domain, main_domain, sequence, ids>>

\* No page service is running: its tables are empty and nothing was called.
NoDatabase ==
    /\ page = << >>
    /\ page_category = << >>
    /\ page_revision = << >>
    /\ response = << >>
    /\ filter = << >>
    /\ site_domain = {}
    /\ sequence = << >>
    /\ ids = << >>

\* The main domain of a deployment, as Config holds it.
DefaultConfig == main_domain = <<".", "w">>

---------------------------------------------------------------------------
(* Bounds of the model *)

\* Longest footnote list a context holds.
MaxFootnotes == 2

\* Most footnote nodes (references and list blocks) one walk meets.
MaxNodes == 3

\* The same for a walk that runs interleaved with another one.
MaxNodes2 == 2

\* Most arguments in the head of a block.
MaxArgs == 2

\* Most items in the body of a block.
MaxBody == 2

\* Most rows of the page table.
MaxPages == 2

\* Most rows of the page_revision table.
MaxRevisions == 3

\* Most rows of the filter table.
MaxFilters == 2

\* Longest domain name handed to the domain service.
MaxDomain == 5

\* Most objects of one class made through the services besides the seeder.
MaxCreated == 2

---------------------------------------------------------------------------
(* Values *)

\* The render passes; pass 2 runs only in the interleaved specification.
Passes == {1, 2}

\* Footnote bodies.
Bodies == {"see note", "other"}

\* Languages a context may be set to; the catalog knows only "en".
Languages == {"en", "xx"}

\* Explicit titles of a footnote-list block.
Titles == {"Notes"}

\* Option<T>: None is the empty tuple, Some(x) the 1-tuple.
None == << >>

Some(x) == <<x>>

unwrap(o) == o[1]

\* The footnote lists a context may hold.
FootnoteLists == UNION {[1..n -> Bodies] : n \in 0..MaxFootnotes}

---------------------------------------------------------------------------
(* Localization handle *)

\* The messages of the catalog, per language.
Messages ==
    [en |-> [footnote |-> "Footnote", title |-> "Footnotes"]]

\* The string a lookup miss yields.
DefaultMessage == "?"

\* Variant of get_message: a lookup miss yields no string.
get_message_failing(language, key) ==
    IF language \in DOMAIN Messages
    THEN IF key = "footnote" THEN Messages[language].footnote
         ELSE IF key = "footnote-block-title" THEN Messages[language].title
         ELSE DefaultMessage
    ELSE None

\* Handle::get_message: the message of `key` in `language`, or the default.
get_message(language, key) ==
    IF language \in DOMAIN Messages
    THEN IF key = "footnote" THEN Messages[language].footnote
         ELSE IF key = "footnote-block-title" THEN Messages[language].title
         ELSE DefaultMessage
    ELSE DefaultMessage

---------------------------------------------------------------------------
(* HtmlContext *)

\* A context at the start of a render pass.
NewContext(footnotes, language) ==
    [footnotes |-> footnotes,
     footnote_index |-> 1,
     language |-> language,
     html |-> << >>]

\* HtmlContext::next_footnote_index: issue the counter's value, then step it.
next_footnote_index(c) ==
    [index |-> c.footnote_index,
     ctx |-> [c EXCEPT !.footnote_index = @ + 1]]

\* HtmlContext::get_footnote: the body at a 1-based index, if any.
get_footnote(c, index) ==
    IF index \in 1..Len(c.footnotes) THEN Some(c.footnotes[index]) ELSE None

\* HtmlContext::footnotes
footnotes(c) == c.footnotes

\* HtmlContext::language
language(c) == c.language

---------------------------------------------------------------------------
(* render_footnote *)

\* format!("wj-footnote-ref-{}", index)
ref_id(index) == <<"wj-footnote-ref-", index>>

\* format!("wj-footnote-{}", index)
content_id(index) == <<"wj-footnote-", index>>

\* format!("{} {}.", footnote_string, index)
label(footnote_string, index) == <<footnote_string, " ", index, ".">>

\* The span a reference writes: the marker button and the hover tooltip.
footnote_ref_html(index, footnote_string, contents) ==
    [class |-> "wj-footnote-ref",
     aria_label |-> label(footnote_string, index),
     ref_id |-> ref_id(index),
     content_id |-> content_id(index),
     marker |-> index,
     tooltip_label |-> label(footnote_string, index),
     tooltip_contents |-> contents]

\* The rest of render_footnote once the index is drawn: the body is read
\* from the context (get_footnote(index).unwrap()) and the span is written.
render_footnote_from(c, index, contents) ==
    IF contents = None
    THEN [panicked |-> TRUE, ctx |-> c]
    ELSE [panicked |-> FALSE,
          ctx |-> [c EXCEPT !.html = Append(@,
                     footnote_ref_html(index,
                                       get_message(language(c), "footnote"),
                                       unwrap(contents)))]]

\* Variant of render_footnote: reads the counter without stepping it.
render_footnote_peeking(c) ==
    render_footnote_from(c, c.footnote_index,
                         get_footnote(c, c.footnote_index))

\* Variant of render_footnote: reads the body at the stepped counter.
render_footnote_next_entry(c) ==
    LET next == next_footnote_index(c)
    IN  render_footnote_from(next.ctx, next.index,
                             get_footnote(next.ctx, next.ctx.footnote_index))

\* Variant of render_footnote: leaves the body out of the tooltip.
render_footnote_no_tooltip(c) ==
    LET next == next_footnote_index(c)
    IN  render_footnote_from(next.ctx, next.index,
                             IF get_footnote(next.ctx, next.index) = None
                             THEN None ELSE Some(""))

\* render_footnote: panics when the index it drew has no body.
render_footnote(c) ==
    LET next == next_footnote_index(c)
    IN  render_footnote_from(next.ctx, next.index,
                             get_footnote(next.ctx, next.index))

\* The messages render_footnote asks the handle for.
render_footnote_lookups(c) == << <<language(c), "footnote">> >>

---------------------------------------------------------------------------
(* render_footnote_block *)

\* Variant of block_title: the given title is ignored.
block_title_always_default(c, title) ==
    get_message(language(c), "footnote-block-title")

\* The title shown: the one given, else the localized default.
block_title(c, title) ==
    IF title # None
    THEN unwrap(title)
    ELSE get_message(language(c), "footnote-block-title")

\* The messages render_footnote_block asks the handle for.
render_footnote_block_lookups(c, title) ==
    IF title # None
    THEN << >>
    ELSE << <<language(c), "footnote-block-title">> >>

\* Variant of item_index: the position is used as the number.
item_index_zero_based(position) == position

\* The 1-based number of the item at a 0-based position of enumerate().
item_index(position) == position + 1

\* One <li> of the list.
footnote_item(position, contents) ==
    LET index == item_index(position)
    IN  [class |-> "wj-footnote",
         id |-> <<"wj-footnote-", index>>,
         onclick |-> <<"wj-footnote-ref-", index>>,
         number |-> index,
         sep |-> ".",
         contents |-> contents]

\* Variant of footnote_items: only the bodies of references already met.
footnote_items_so_far(c) ==
    [i \in 1..(c.footnote_index - 1) |-> footnote_item(i - 1, footnotes(c)[i])]

\* The <li> elements, one per entry of ctx.footnotes(), in its order.
footnote_items(c) ==
    [i \in 1..Len(footnotes(c)) |-> footnote_item(i - 1, footnotes(c)[i])]

\* render_footnote_block
render_footnote_block(c, title) ==
    [c EXCEPT !.html = Append(@,
        [class |-> "wj-footnotes-list",
         title |-> block_title(c, title),
         items |-> footnote_items(c)])]

---------------------------------------------------------------------------
(* The walk *)

\* Nodes of the tree that the walk meets.
FootnoteNode == [element |-> "footnote"]

FootnoteBlockNode(title) == [element |-> "footnote-block", title |-> title]

\* How many nodes a walk may meet.
NodeBound == IF passes = {1} THEN MaxNodes ELSE MaxNodes2

CanWalk(p) ==
    /\ p \in passes
    /\ status[p] = "walking"
    /\ Len(walked[p]) < NodeBound

\* The number of references among the first k nodes walked.
RECURSIVE RefsIn(_, _)
RefsIn(nodes, k) ==
    IF k = 0 THEN 0
    ELSE RefsIn(nodes, k - 1)
         + (IF nodes[k].element = "footnote" THEN 1 ELSE 0)

\* Variant of RenderFootnote: one footnote counter for all passes.
RenderFootnoteSharedCounter(p) ==
    /\ CanWalk(p)
    /\ LET r == render_footnote(ctx[p])
       IN  /\ ctx' = [q \in Passes |->
                        IF q = p THEN r.ctx
                        ELSE [ctx[q] EXCEPT
                                !.footnote_index = r.ctx.footnote_index]]
           /\ status' = [status EXCEPT
                           ![p] = IF r.panicked THEN "panicked" ELSE @]
    /\ walked' = [walked EXCEPT ![p] = Append(@, FootnoteNode)]
    /\ lookups' = [lookups EXCEPT
                     ![p] = @ \o render_footnote_lookups(ctx[p])]
    /\ UNCHANGED <<passes, parse_vars, page_vars, service_vars>>

\* The walk meets a footnote reference.
RenderFootnote(p) ==
    /\ CanWalk(p)
    /\ LET r == render_footnote(ctx[p])
       IN  /\ ctx' = [ctx EXCEPT ![p] = r.ctx]
           /\ status' = [status EXCEPT
                           ![p] = IF r.panicked THEN "panicked" ELSE @]
    /\ walked' = [walked EXCEPT ![p] = Append(@, FootnoteNode)]
    /\ lookups' = [lookups EXCEPT
                     ![p] = @ \o render_footnote_lookups(ctx[p])]
    /\ UNCHANGED <<passes, parse_vars, page_vars, service_vars>>

\* The walk meets a footnote-list block.
RenderFootnoteBlock(p, title) ==
    /\ CanWalk(p)
    /\ ctx' = [ctx EXCEPT ![p] = render_footnote_block(ctx[p], title)]
    /\ walked' = [walked EXCEPT ![p] = Append(@, FootnoteBlockNode(title))]
    /\ lookups' = [lookups EXCEPT
                     ![p] = @ \o render_footnote_block_lookups(ctx[p], title)]
    /\ UNCHANGED <<status, passes, parse_vars, page_vars, service_vars>>

\* The walk reaches the end of the tree.
Finish(p) ==
    /\ p \in passes
    /\ status[p] = "walking"
    /\ status' = [status EXCEPT ![p] = "done"]
    /\ UNCHANGED <<ctx, walked, lookups, passes, parse_vars, page_vars, service_vars>>

\* The parser collects one body per reference: a tree it produced has as
\* many references as the context has footnotes.
MoreRefs(p) == ctx[p].footnote_index <= Len(ctx[p].footnotes)

---------------------------------------------------------------------------
(* Elements and parse results *)

\* Element::Text
Text(text) == [element |-> "Text", text |-> text]

\* Element::Container(Container::new(ctype, elements, attributes))
Container(ctype, elements, attributes) ==
    [element |-> "Container",
     ctype |-> ctype,
     elements |-> elements,
     attributes |-> attributes]

\* ok!(paragraph_safe; element, exceptions)
Ok(paragraph_safe, element, exceptions) ==
    [kind |-> "ok",
     element |-> element,
     exceptions |-> exceptions,
     paragraph_safe |-> paragraph_safe]

\* Err(error), as `?` hands it on.
Err(error) == [kind |-> "err", error |-> error]

\* A failed assert!.
Panic(message) == [kind |-> "panic", message |-> message]

---------------------------------------------------------------------------
(* The input of the parser: one block invocation *)

\* Names a block may be written with.
BlockNames == {"del", "deletion", "block-del", "ins"}

\* Arguments of a block's head: a key and a value, or text that is no
\* key="value" pair.
HeadArgs ==
    {[key |-> "class", value |-> "a", well_formed |-> TRUE],
     [key |-> "zzz", value |-> "c", well_formed |-> TRUE],
     [key |-> "", value |-> "", well_formed |-> FALSE]}

\* Items of a block's body: plain text, an inline element, a block-level
\* element, a nested block that is malformed, a nested block that is too
\* deep.
BodyItems ==
    {[kind |-> "text", text |-> "old"],
     [kind |-> "text", text |-> "new"],
     [kind |-> "inline", text |-> "b"],
     [kind |-> "block", text |-> "d"],
     [kind |-> "malformed", text |-> "[[x"],
     [kind |-> "deep", text |-> "[["]}

Heads == UNION {[1..n -> HeadArgs] : n \in 0..MaxArgs}

BodiesOfBlocks == UNION {[1..n -> BodyItems] : n \in 0..MaxBody}

\* The block invocations: the head is non-empty only when the tag goes on
\* after the name (in_head).
Inputs ==
    {i \in [name : BlockNames, star : BOOLEAN, score : BOOLEAN,
            in_head : BOOLEAN, head : Heads, body : BodiesOfBlocks] :
        ~i.in_head => i.head = << >>}

---------------------------------------------------------------------------
(* Parser *)

\* The exception a malformed head argument yields.
MalformedArgument(n) == [kind |-> "BlockMalformedArguments", at |-> n]

\* Parser::get_head_map: the key/value pairs of the head in order of
\* appearance, unknown keys kept; a malformed argument yields an exception
\* and the arguments after it are still read.  No head is read unless
\* in_head.
get_head_map(rule, in_head, head) ==
    LET read == IF in_head THEN head ELSE << >>
        good == {n \in 1..Len(read) : read[n].well_formed}
    IN  [kind |-> "ok",
         arguments |-> SelectSeq(read, LAMBDA a : a.well_formed),
         exceptions |-> SelectSeq([n \in 1..Len(read) |->
                                      IF read[n].well_formed
                                      THEN None ELSE MalformedArgument(n)],
                                  LAMBDA e : e # None)]

\* Arguments::to_hash_map: key -> value, a later pair replacing an earlier.
to_hash_map(arguments) ==
    [k \in {arguments[n].key : n \in 1..Len(arguments)} |->
        LET last == CHOOSE n \in 1..Len(arguments) :
                        /\ arguments[n].key = k
                        /\ \A m \in (n + 1)..Len(arguments) :
                               arguments[m].key # k
        IN  arguments[last].value]

\* The element a body item parses to.
body_element(item) ==
    IF item.kind = "text" THEN Text(item.text)
    ELSE IF item.kind = "inline"
         THEN Container("Bold", <<Text(item.text)>>, << >>)
    ELSE IF item.kind = "block"
         THEN Container("Div", <<Text(item.text)>>, << >>)
    ELSE Text(item.text)

\* Whether the element of a body item may stand inside a paragraph.
body_paragraph_safe(item) == item.kind # "block"

\* Parser::get_body_elements: the body parsed into elements, with the
\* exceptions met and the paragraph-safety of the whole; nesting beyond
\* the depth limit fails the parse.
get_body_elements(rule, body, as_paragraphs) ==
    IF \E n \in 1..Len(body) : body[n].kind = "deep"
    THEN Err("RecursionLimitExceeded")
    ELSE LET elements == [n \in 1..Len(body) |-> body_element(body[n])]
             exceptions ==
                 SelectSeq([n \in 1..Len(body) |->
                               IF body[n].kind = "malformed"
                               THEN [kind |-> "NoRulesMatch", at |-> n]
                               ELSE None],
                           LAMBDA e : e # None)
             safe == \A n \in 1..Len(body) : body_paragraph_safe(body[n])
         IN  [kind |-> "ok",
              elements |-> IF as_paragraphs /\ elements # << >>
                           THEN <<Container("Paragraph", elements, << >>)>>
                           ELSE elements,
              exceptions |-> exceptions,
              paragraph_safe |-> safe]

---------------------------------------------------------------------------
(* The deletion block rule *)

\* Variant of BLOCK_DEL: the rule is declared to accept the star flag.
BLOCK_DEL_accepting_star ==
    [name |-> "block-del",
     accepts_names |-> {"del", "deletion"},
     accepts_star |-> TRUE,
     accepts_score |-> FALSE,
     accepts_newlines |-> FALSE]

\* BLOCK_DEL
BLOCK_DEL ==
    [name |-> "block-del",
     accepts_names |-> {"del", "deletion"},
     accepts_star |-> FALSE,
     accepts_score |-> FALSE,
     accepts_newlines |-> FALSE]

\* assert_block_name: the name is one the rule accepts.
assert_block_name(rule, name) == name \in rule.accepts_names

\* Variant of del_body: the body is wrapped in paragraphs.
del_body_with_paragraphs(body) == get_body_elements(BLOCK_DEL, body, TRUE)

\* parser.get_body_elements(&BLOCK_DEL, false): the body, without
\* paragraphs.
del_body(body) == get_body_elements(BLOCK_DEL, body, FALSE)

\* Variant of del_paragraph_safe: a deletion is always paragraph-safe.
del_paragraph_safe_always(got) == TRUE

\* ok!(paragraph_safe; ..): the paragraph-safety of the body, as it is.
del_paragraph_safe(got) == got.paragraph_safe

\* Variant of del_attributes: the head map is left out of the element.
del_attributes_empty(arguments) == << >>

\* arguments.to_hash_map(): the attributes of the container.
del_attributes(arguments) == to_hash_map(arguments.arguments)

\* Variant of parse_fn: a body that fails to parse is kept as an empty
\* container with the failure among the exceptions.
parse_fn_keeps_failed_body(name, special, modifier, in_head, head, body) ==
    LET arguments == get_head_map(BLOCK_DEL, in_head, head)
        got == del_body(body)
    IN  IF got.kind # "ok"
        THEN Ok(TRUE,
                Container("Deletion", << >>, del_attributes(arguments)),
                <<[kind |-> got.error, at |-> 0]>>)
        ELSE Ok(del_paragraph_safe(got),
                Container("Deletion", got.elements,
                          del_attributes(arguments)),
                got.exceptions)

\* parse_fn of BLOCK_DEL.
parse_fn(name, special, modifier, in_head, head, body) ==
    IF special THEN Panic("Deletion doesn't allow special variant")
    ELSE IF modifier THEN Panic("Deletion doesn't allow modifier variant")
    ELSE IF ~assert_block_name(BLOCK_DEL, name) THEN Panic("block name")
    ELSE LET arguments == get_head_map(BLOCK_DEL, in_head, head)
         IN  IF arguments.kind # "ok" THEN arguments
             ELSE LET got == del_body(body)
                  IN  IF got.kind # "ok" THEN got
                      ELSE Ok(del_paragraph_safe(got),
                              Container("Deletion",
                                        got.elements,
                                        del_attributes(arguments)),
                              got.exceptions)

---------------------------------------------------------------------------
(* The block dispatcher *)

\* Variant of get_block_rule_with_name: only the first accepted name.
get_block_rule_first_name_only(name) ==
    IF name = "del" THEN Some(BLOCK_DEL) ELSE None

\* Variant of get_block_rule_with_name: an unknown name falls to a rule.
get_block_rule_or_any(name) == Some(BLOCK_DEL)

\* The rule a block name resolves to, if any: the rule that lists the name
\* in accepts_names.  The rule's own name is not a name it accepts.
get_block_rule_with_name(name) ==
    IF name \in BLOCK_DEL.accepts_names THEN Some(BLOCK_DEL) ELSE None

\* Variant of flags_allowed: the flags are not looked at.
flags_ignored(rule, star, score) == TRUE

\* Whether a rule accepts the flags a block is written with.
flags_allowed(rule, star, score) ==
    /\ star => rule.accepts_star
    /\ score => rule.accepts_score

\* Parsing one block: the name is resolved, the flags are held against the
\* rule, and the rule's parse_fn is run.
parse_block(i) ==
    LET found == get_block_rule_with_name(i.name)
    IN  IF found = None THEN Err("NoSuchBlock")
        ELSE IF ~flags_allowed(unwrap(found), i.star, i.score)
             THEN Err(IF i.star THEN "BlockDisallowsStar"
                      ELSE "BlockDisallowsScore")
        ELSE parse_fn(i.name, i.star, i.score, i.in_head, i.head, i.body)

\* What a block's result means for the document around it: an exception
\* is recorded and the document is parsed on; the recursion limit fails the
\* whole parse; a failed assertion ends the process.
DocumentOutcome(r) ==
    IF r.kind = "panic" THEN "crashed"
    ELSE IF r.kind = "err" /\ r.error = "RecursionLimitExceeded"
         THEN "aborted"
    ELSE "parsed"

\* The name resolves to no rule: a recoverable exception.
ParseNoSuchBlock ==
    /\ input # None /\ result = None
    /\ get_block_rule_with_name(input.name) = None
    /\ result' = Err("NoSuchBlock")
    /\ UNCHANGED <<input, spelled, render_vars, page_vars, service_vars>>

\* A flag the rule does not accept: a recoverable exception.
ParseDisallowedFlag ==
    /\ input # None /\ result = None
    /\ get_block_rule_with_name(input.name) # None
    /\ ~flags_allowed(unwrap(get_block_rule_with_name(input.name)),
                      input.star, input.score)
    /\ result' = Err(IF input.star THEN "BlockDisallowsStar"
                     ELSE "BlockDisallowsScore")
    /\ UNCHANGED <<input, spelled, render_vars, page_vars, service_vars>>

\* The rule's parse_fn is run on the block.
ParseBlock ==
    /\ input # None /\ result = None
    /\ get_block_rule_with_name(input.name) # None
    /\ flags_allowed(unwrap(get_block_rule_with_name(input.name)),
                     input.star, input.score)
    /\ result' = parse_fn(input.name, input.star, input.score,
                          input.in_head, input.head, input.body)
    /\ UNCHANGED <<input, spelled, render_vars, page_vars, service_vars>>

\* The same block written with another of the names: the block at the
\* parser's position is parsed as it is when spelled `name`.
ParseSpelling(name) ==
    /\ input # None
    /\ spelled[name] = None
    /\ spelled' = [spelled EXCEPT
                     ![name] = parse_block([input EXCEPT !.name = name])]
    /\ UNCHANGED <<input, result, render_vars, page_vars, service_vars>>

---------------------------------------------------------------------------
(* deepwell: the page service (services/page/service.rs) *)

\* The sites pages are made on.
Sites == {1, 2}

\* Slugs as a caller writes them.
Slugs == {"a", "A", "c:a"}

\* The slug a caller of restore may give.
SlugOptions == {None} \cup {Some(s) : s \in Slugs}

\* Verdicts of the filter matcher on a page's text.
Verdicts == {"pass", "reject"}

\* The value a Result carries on success.
Returned(output) == [kind |-> "ok", output |-> output]

\* wikidot_normalize::normalize, on the slugs of the model.
normalize(slug) == IF slug = "A" THEN "a" ELSE slug

\* The part of a slug before its colon, _default when it has none.
get_category_name(slug) == IF slug = "c:a" THEN "c" ELSE "_default"

\* Strips a leading _default category from a slug.
trim_default(slug) == IF slug = "_default:a" THEN "a" ELSE slug

\* Reference::Id and Reference::Slug.
Id(page_id) == [by |-> "id", id |-> page_id]

Slug(slug) == [by |-> "slug", slug |-> slug]

References ==
    {Id(n) : n \in 1..MaxPages} \cup {Slug(s) : s \in {"a", "c:a", "_default:a"}}

\* The timestamp now() gives; the model tells set from unset only.
now == "now"

\* A row of the page table as create inserts it.
PageModel(site_id, page_category_id, slug) ==
    [site_id |-> site_id,
     page_category_id |-> page_category_id,
     slug |-> slug,
     updated_at |-> None,
     deleted_at |-> None]

\* A row of the page_revision table.
PageRevision(page_id, revision_type, slug) ==
    [page_id |-> page_id, revision_type |-> revision_type, slug |-> slug]

\* The tables the service works on.
Database ==
    [page |-> page,
     page_category |-> page_category,
     page_revision |-> page_revision]

\* The rows of the page table the query of check_conflicts selects.
extant_with_slug(pages, site_id, slug) ==
    {n \in 1..Len(pages) : /\ pages[n].site_id = site_id
                           /\ pages[n].slug = slug
                           /\ pages[n].deleted_at = None}

\* The same query without the condition on DeletedAt.
any_with_slug(pages, site_id, slug) ==
    {n \in 1..Len(pages) : /\ pages[n].site_id = site_id
                           /\ pages[n].slug = slug}

\* check_conflicts that counts deleted pages too.
check_conflicts_counting_deleted(pages, site_id, slug) ==
    IF any_with_slug(pages, site_id, slug) = {}
    THEN Returned(None)
    ELSE Err("Conflict")

check_conflicts(pages, site_id, slug) ==
    IF extant_with_slug(pages, site_id, slug) = {}
    THEN Returned(None)
    ELSE Err("Conflict")

\* run_filter: the matcher's verdict on the page's text.
run_filter(verdict) ==
    IF verdict = "pass" THEN Returned(None) ELSE Err("FilterViolation")

\* CategoryService::get_or_create: the category of that name on the site,
\* inserted when the site has none.
get_or_create(categories, site_id, name) ==
    LET row == [site_id |-> site_id, slug |-> name]
        found == {n \in 1..Len(categories) : categories[n] = row}
    IN  IF found = {}
        THEN [categories |-> Append(categories, row),
              category_id |-> Len(categories) + 1]
        ELSE [categories |-> categories,
              category_id |-> CHOOSE n \in found : TRUE]

\* PageRevisionService::get_latest: the last revision made of the page.
get_latest(revisions, page_id) ==
    LET of_page == {n \in 1..Len(revisions) : revisions[n].page_id = page_id}
    IN  revisions[CHOOSE n \in of_page : \A m \in of_page : m <= n]

\* PageRevisionService::create_first.
create_first(revisions, page_id, slug) ==
    Append(revisions, PageRevision(page_id, "create", slug))

\* PageRevisionService::create_tombstone.
create_tombstone(revisions, page_id, last_revision) ==
    Append(revisions, PageRevision(page_id, "delete", last_revision.slug))

\* PageRevisionService::create_resurrection.
create_resurrection(revisions, page_id, new_slug) ==
    Append(revisions, PageRevision(page_id, "undelete", new_slug))

\* PageService::create: the tables after the call and what it returns.
create(db, site_id, raw_slug, bypass_filter, verdict) ==
    LET slug == normalize(raw_slug)
        conflicts == check_conflicts(db.page, site_id, slug)
        filtered == IF bypass_filter THEN Returned(None) ELSE run_filter(verdict)
        category == get_or_create(db.page_category, site_id,
                                  get_category_name(slug))
        pages == Append(db.page,
                        PageModel(site_id, category.category_id, slug))
        page_id == Len(pages)
        revisions == create_first(db.page_revision, page_id, slug)
    IN  IF conflicts.kind = "err" THEN [db |-> db, result |-> conflicts]
        ELSE IF filtered.kind = "err" THEN [db |-> db, result |-> filtered]
        ELSE [db |-> [page |-> pages,
                      page_category |-> category.categories,
                      page_revision |-> revisions],
              result |-> Returned([page_id |-> page_id,
                                   slug |-> slug,
                                   revision_id |-> Len(revisions)])]

\* PageService::get_optional: the rows its query selects.
get_optional(pages, site_id, reference) ==
    {n \in 1..Len(pages) :
        /\ IF reference.by = "id"
           THEN n = reference.id
           ELSE pages[n].slug = trim_default(reference.slug)
        /\ pages[n].site_id = site_id
        /\ pages[n].deleted_at = None}

\* PageService::restore from the check that the page is deleted onwards.
restore_deleted(db, site_id, page_id, slug_option) ==
    LET row == db.page[page_id]
        slug == IF slug_option = None THEN row.slug ELSE unwrap(slug_option)
        conflicts == check_conflicts(db.page, site_id, slug)
        category == get_or_create(db.page_category, site_id,
                                  get_category_name(slug))
        revisions == create_resurrection(db.page_revision, page_id, slug)
    IN  IF row.deleted_at = None
        THEN [db |-> db, result |-> Err("BadRequest")]
        ELSE IF conflicts.kind = "err" THEN [db |-> db, result |-> conflicts]
        ELSE [db |-> [page |-> [db.page EXCEPT
                                  ![page_id].page_category_id =
                                      category.category_id,
                                  ![page_id].deleted_at = None],
                      page_category |-> category.categories,
                      page_revision |-> revisions],
              result |-> Returned([slug |-> slug,
                                   revision_id |-> Len(revisions)])]

\* restore without the check that the page is of the site.
restore_any_site(db, site_id, page_id, slug_option) ==
    IF page_id \notin 1..Len(db.page)
    THEN [db |-> db, result |-> Err("NotFound")]
    ELSE restore_deleted(db, site_id, page_id, slug_option)

\* PageService::restore: the tables after the call and what it returns.
restore(db, site_id, page_id, slug_option) ==
    IF page_id \notin 1..Len(db.page)
    THEN [db |-> db, result |-> Err("NotFound")]
    ELSE IF db.page[page_id].site_id # site_id
    THEN [db |-> db, result |-> Err("NotFound")]
    ELSE restore_deleted(db, site_id, page_id, slug_option)

\* ProvidedValue::Unset and ProvidedValue::Set.
Unset == [provided |-> FALSE]

ProvidedSet(value) == [provided |-> TRUE, value |-> value]

\* The revisions of a page, oldest first, as positions in the table.
revisions_of(revisions, page_id) ==
    SelectSeq([n \in 1..Len(revisions) |-> n],
              LAMBDA n : revisions[n].page_id = page_id)

\* PageRevisionService::get: the revision of that number, the first
\* revision of a page being number 0.
get_revision(revisions, page_id, revision_number) ==
    LET of_page == revisions_of(revisions, page_id)
    IN  IF revision_number + 1 \in 1..Len(of_page)
        THEN Returned(revisions[of_page[revision_number + 1]])
        ELSE Err("NotFound")

\* A rollback whose revision takes the slug of the target revision.
rollback_body_with_slug(target_revision) ==
    [slug |-> ProvidedSet(target_revision.slug)]

\* The CreatePageRevisionBody rollback builds from the target revision.
rollback_body(target_revision) ==
    [slug |-> Unset]

\* The CreatePageRevisionBody move builds.
move_body(new_slug) ==
    [slug |-> ProvidedSet(new_slug)]

\* PageRevisionService::create: a revision is made when data changed, with
\* the slug of the last revision unless the body sets another one.
create_revision(revisions, page_id, body, last_revision, changed) ==
    LET moved == body.slug.provided /\ body.slug.value # last_revision.slug
    IN  IF changed \/ moved
        THEN Append(revisions,
                    PageRevision(page_id,
                                 IF moved THEN "move" ELSE "regular",
                                 IF moved
                                 THEN body.slug.value
                                 ELSE last_revision.slug))
        ELSE revisions

\* The tables stay within the bounds of the model.
WithinBounds(db) ==
    /\ Len(db.page) <= MaxPages
    /\ Len(db.page_revision) <= MaxRevisions

\* A call of PageService::create.
Create(site_id, slug, bypass_filter, verdict) ==
    LET r == create(Database, site_id, slug, bypass_filter, verdict)
    IN  /\ WithinBounds(r.db)
        /\ page' = r.db.page
        /\ page_category' = r.db.page_category
        /\ page_revision' = r.db.page_revision
        /\ response' = [op |-> "create", site_id |-> site_id, slug |-> slug,
                        result |-> r.result]
        /\ UNCHANGED <<render_vars, parse_vars, service_vars>>

\* A call of PageService::delete.
Delete(site_id, reference) ==
    LET found == get_optional(page, site_id, reference)
    IN  IF found = {}
        THEN /\ response' = [op |-> "delete", result |-> Err("NotFound")]
             /\ UNCHANGED <<page, page_category, page_revision,
                            render_vars, parse_vars, service_vars>>
        ELSE \E page_id \in found :
             LET revisions ==
                     create_tombstone(page_revision, page_id,
                                      get_latest(page_revision, page_id))
             IN  /\ Len(revisions) <= MaxRevisions
                 /\ page_revision' = revisions
                 /\ page' = [page EXCEPT ![page_id].deleted_at = Some(now)]
                 /\ response' = [op |-> "delete",
                                 result |->
                                   Returned([page_id |-> page_id,
                                             revision_id |-> Len(revisions)])]
                 /\ UNCHANGED <<page_category, render_vars, parse_vars,
                                service_vars>>

\* A call of PageService::restore.
Restore(site_id, page_id, slug_option) ==
    LET r == restore(Database, site_id, page_id, slug_option)
    IN  /\ WithinBounds(r.db)
        /\ page' = r.db.page
        /\ page_category' = r.db.page_category
        /\ page_revision' = r.db.page_revision
        /\ response' = [op |-> "restore", page_id |-> page_id,
                        result |-> r.result]
        /\ UNCHANGED <<render_vars, parse_vars, service_vars>>

\* A call of PageService::move.
Move(site_id, reference, raw_slug) ==
    LET found == get_optional(page, site_id, reference)
        new_slug == normalize(raw_slug)
        unmoved(error) ==
            /\ response' = [op |-> "move", result |-> Err(error)]
            /\ UNCHANGED <<page, page_category, page_revision,
                           render_vars, parse_vars, service_vars>>
    IN  IF found = {}
        THEN unmoved("NotFound")
        ELSE \E page_id \in found :
             IF page[page_id].slug = new_slug
             THEN unmoved("BadRequest")
             ELSE IF check_conflicts(page, site_id, new_slug).kind = "err"
             THEN unmoved("Conflict")
             ELSE
             LET category == get_or_create(page_category, site_id,
                                           get_category_name(new_slug))
                 revisions ==
                     create_revision(page_revision, page_id,
                                     move_body(new_slug),
                                     get_latest(page_revision, page_id),
                                     FALSE)
             IN  /\ Len(revisions) <= MaxRevisions
                 /\ page_revision' = revisions
                 /\ page_category' = category.categories
                 /\ page' = [page EXCEPT
                               ![page_id].slug = new_slug,
                               ![page_id].page_category_id =
                                   category.category_id,
                               ![page_id].updated_at = Some(now)]
                 /\ response' =
                      [op |-> "move",
                       result |->
                         IF Len(revisions) > Len(page_revision)
                         THEN Returned([old_slug |-> page[page_id].slug,
                                        new_slug |-> new_slug,
                                        revision_id |-> Len(revisions)])
                         ELSE Err("BadRequest")]
                 /\ UNCHANGED <<render_vars, parse_vars, service_vars>>

\* A call of PageService::rollback.
Rollback(site_id, reference, revision_number, changed) ==
    LET found == get_optional(page, site_id, reference)
        call == [op |-> "rollback", revision_number |-> revision_number]
    IN  IF found = {}
        THEN /\ response' = call @@ [result |-> Err("NotFound")]
             /\ UNCHANGED <<page, page_category, page_revision,
                            render_vars, parse_vars, service_vars>>
        ELSE \E page_id \in found :
             LET target == get_revision(page_revision, page_id,
                                        revision_number)
             IN  IF target.kind = "err"
                 THEN /\ response' = call @@ [result |-> target]
                      /\ UNCHANGED <<page, page_category, page_revision,
                                     render_vars, parse_vars, service_vars>>
                 ELSE
                 LET body == rollback_body(target.output)
                     revisions ==
                         create_revision(page_revision, page_id, body,
                                         get_latest(page_revision, page_id),
                                         changed)
                 IN  /\ Len(revisions) <= MaxRevisions
                     /\ page_revision' = revisions
                     /\ page' = [page EXCEPT
                                   ![page_id].updated_at = Some(now)]
                     /\ response' =
                          call @@ [body |-> body,
                                   result |->
                                     Returned(IF changed
                                              THEN Some(Len(revisions))
                                              ELSE None)]
                     /\ UNCHANGED <<page_category, render_vars, parse_vars,
                                    service_vars>>

\* The category a caller of get_all may select.
CategoryOptions == {None, Some(Slug("c"))}

\* The deleted argument of get_all.
DeletedOptions == {None, Some(TRUE), Some(FALSE)}

\* CategoryService::get: the ID of the category of that name on the site.
get_category(categories, site_id, reference) ==
    LET found == {n \in 1..Len(categories) :
                    categories[n] = [site_id |-> site_id,
                                     slug |-> reference.slug]}
    IN  IF found = {}
        THEN Err("NotFound")
        ELSE Returned(CHOOSE n \in found : TRUE)

\* get_all whose deleted argument selects nothing.
page_deleted_condition_ignored(deleted, row) == TRUE

\* The deleted_condition of PageService::get_all, held against a row.
page_deleted_condition(deleted, row) ==
    IF deleted = Some(TRUE) THEN row.deleted_at # None
    ELSE IF deleted = Some(FALSE) THEN row.deleted_at = None
    ELSE TRUE

\* PageService::get_all: the IDs of the rows its query selects, in order.
get_all(pages, categories, site_id, category, deleted) ==
    LET wanted == IF category = None
                  THEN Returned(None)
                  ELSE get_category(categories, site_id, unwrap(category))
    IN  IF wanted.kind = "err"
        THEN wanted
        ELSE Returned(
               SelectSeq([n \in 1..Len(pages) |-> n],
                         LAMBDA n :
                           /\ pages[n].site_id = site_id
                           /\ category # None =>
                                pages[n].page_category_id = wanted.output
                           /\ page_deleted_condition(deleted, pages[n])))

\* A call of PageService::get_all.
GetAllPages(site_id, category, deleted) ==
    /\ response' = [op |-> "get_all", site_id |-> site_id,
                    category |-> category, deleted |-> deleted,
                    result |-> get_all(page, page_category, site_id,
                                       category, deleted)]
    /\ UNCHANGED <<page, page_category, page_revision,
                   render_vars, parse_vars, service_vars>>

---------------------------------------------------------------------------
(* deepwell: the filter service (services/filter/service.rs) *)

\* The site of a filter: none for a platform filter.
FilterSites == {None, Some(1)}

\* Regular expressions as a caller writes them; the last does not compile.
Regexes == {"a", "b", "("}

\* Regex::new(..).is_ok(), on the expressions of the model.
regex_compiles(regex) == regex # "("

\* FilterType: the kind of object a filter is held against.
FilterTypes == {"page", "user"}

\* FilterClass, and the condition it puts on a row's site.
FilterClasses ==
    {[class |-> "site", site_id |-> 1],
     [class |-> "platform_and_site", site_id |-> 1]}

to_condition(filter_class, row) ==
    IF filter_class.class = "platform"
    THEN row.site_id = None
    ELSE IF filter_class.class = "site"
    THEN row.site_id = Some(filter_class.site_id)
    ELSE row.site_id = None \/ row.site_id = Some(filter_class.site_id)

\* A row of the filter table as create inserts it.
FilterModel(site_id, affects, regex, description) ==
    [site_id |-> site_id,
     affects |-> affects,
     regex |-> regex,
     description |-> description,
     deleted_at |-> None]

\* Column.eq(value) of the query builder: SQL's =, which is true of no row
\* when the value is NULL.
column_eq(column, value) == value # None /\ column = value

\* An equality under which NULL equals NULL.
column_is(column, value) == column = value

\* FilterService::check_conflicts.
filter_check_conflicts(filters, site_id, regex) ==
    IF \E n \in 1..Len(filters) :
         /\ column_eq(filters[n].site_id, site_id)
         /\ filters[n].regex = regex
         /\ filters[n].deleted_at = None
    THEN Err("Conflict")
    ELSE Returned(None)

\* FilterService::create: the table after the call and what it returns.
filter_create(filters, site_id, affects, regex, description) ==
    LET conflicts == filter_check_conflicts(filters, site_id, regex)
        inserted == Append(filters,
                           FilterModel(site_id, affects, regex, description))
    IN  IF ~regex_compiles(regex)
        THEN [filters |-> filters, result |-> Err("BadRequest")]
        ELSE IF conflicts.kind = "err"
        THEN [filters |-> filters, result |-> conflicts]
        ELSE [filters |-> inserted, result |-> Returned(Len(inserted))]

\* FilterService::get.
filter_get(filters, filter_id) ==
    IF filter_id \in 1..Len(filters)
    THEN Returned(filters[filter_id])
    ELSE Err("NotFound")

\* FilterService::delete.
filter_delete(filters, filter_id) ==
    LET found == filter_get(filters, filter_id)
    IN  IF found.kind = "err"
        THEN [filters |-> filters, result |-> found]
        ELSE IF found.output.deleted_at # None
        THEN [filters |-> filters, result |-> Err("BadRequest")]
        ELSE [filters |-> [filters EXCEPT ![filter_id].deleted_at = Some(now)],
              result |-> Returned(None)]

\* FilterService::restore.
filter_restore(filters, filter_id) ==
    LET found == filter_get(filters, filter_id)
        conflicts == filter_check_conflicts(filters, found.output.site_id,
                                            found.output.regex)
    IN  IF found.kind = "err"
        THEN [filters |-> filters, result |-> found]
        ELSE IF found.output.deleted_at = None
        THEN [filters |-> filters, result |-> Err("BadRequest")]
        ELSE IF conflicts.kind = "err"
        THEN [filters |-> filters, result |-> conflicts]
        ELSE [filters |-> [filters EXCEPT ![filter_id].deleted_at = None],
              result |-> Returned(filter_id)]

\* The deleted_condition of FilterService::get_all, held against a row.
filter_deleted_condition(deleted, row) ==
    IF deleted = Some(TRUE) THEN row.deleted_at # None
    ELSE IF deleted = Some(FALSE) THEN row.deleted_at = None
    ELSE TRUE

\* FilterService::get_all: the IDs of the rows its query selects, in order.
filter_get_all(filters, filter_class, filter_type, deleted) ==
    SelectSeq([n \in 1..Len(filters) |-> n],
              LAMBDA n :
                /\ to_condition(filter_class, filters[n])
                /\ filter_type # None =>
                     unwrap(filter_type) \in filters[n].affects
                /\ filter_deleted_condition(deleted, filters[n]))

\* A matcher built from the filters of every deletion status.
get_matcher_of_all(filters, filter_class, filter_type) ==
    LET found == filter_get_all(filters, filter_class, Some(filter_type), None)
    IN  [regexes |-> [k \in 1..Len(found) |-> filters[found[k]].regex],
         filter_data |->
           [k \in 1..Len(found) |->
              [filter_id |-> found[k],
               description |-> filters[found[k]].description]]]

\* FilterService::get_matcher, before the regular expressions are compiled:
\* the expressions and the summaries of the filters it is built from.
get_matcher(filters, filter_class, filter_type) ==
    LET found == filter_get_all(filters, filter_class, Some(filter_type),
                                Some(FALSE))
    IN  [regexes |-> [k \in 1..Len(found) |-> filters[found[k]].regex],
         filter_data |->
           [k \in 1..Len(found) |->
              [filter_id |-> found[k],
               description |-> filters[found[k]].description]]]

\* RegexSet::new over the expressions of a matcher.
compile_matcher(matcher) ==
    IF \A k \in 1..Len(matcher.regexes) : regex_compiles(matcher.regexes[k])
    THEN Returned(matcher)
    ELSE Err("Inconsistent")

\* A call of FilterService::create.
CreateFilter(site_id, affects, regex) ==
    LET r == filter_create(filter, site_id, affects, regex, "d")
    IN  /\ Len(r.filters) <= MaxFilters
        /\ filter' = r.filters
        /\ response' = [op |-> "filter.create", site_id |-> site_id,
                        regex |-> regex, result |-> r.result]
        /\ UNCHANGED <<site_domain, main_domain, sequence, ids,
                       page, page_category, page_revision,
                       render_vars, parse_vars>>

\* A call of FilterService::delete.
DeleteFilter(filter_id) ==
    LET r == filter_delete(filter, filter_id)
    IN  /\ filter' = r.filters
        /\ response' = [op |-> "filter.delete", filter_id |-> filter_id,
                        result |-> r.result]
        /\ UNCHANGED <<site_domain, main_domain, sequence, ids,
                       page, page_category, page_revision,
                       render_vars, parse_vars>>

\* A call of FilterService::restore.
RestoreFilter(filter_id) ==
    LET r == filter_restore(filter, filter_id)
    IN  /\ filter' = r.filters
        /\ response' = [op |-> "filter.restore", filter_id |-> filter_id,
                        result |-> r.result]
        /\ UNCHANGED <<site_domain, main_domain, sequence, ids,
                       page, page_category, page_revision,
                       render_vars, parse_vars>>

\* A call of FilterService::get_all.
GetAllFilters(filter_class, filter_type, deleted) ==
    /\ response' = [op |-> "filter.get_all", filter_class |-> filter_class,
                    filter_type |-> filter_type, deleted |-> deleted,
                    result |-> Returned(filter_get_all(filter, filter_class,
                                                       filter_type, deleted))]
    /\ UNCHANGED <<service_vars, page, page_category, page_revision,
                   render_vars, parse_vars>>

\* A call of FilterService::get_matcher.
GetMatcher(filter_class, filter_type) ==
    /\ response' = [op |-> "filter.get_matcher",
                    filter_class |-> filter_class,
                    filter_type |-> filter_type,
                    result |-> compile_matcher(
                                 get_matcher(filter, filter_class,
                                             filter_type))]
    /\ UNCHANGED <<service_vars, page, page_category, page_revision,
                   render_vars, parse_vars>>

---------------------------------------------------------------------------
(* deepwell: the domain service (services/domain/service.rs) and the main *)
(* domain of the configuration (config/file.rs)                            *)

\* The characters of a domain name; a name is a sequence of them.
Chars == {".", "a", "w"}

\* Domain names as a caller writes them.
Domains == UNION {[1..n -> Chars] : n \in 0..MaxDomain}

\* Site slugs: names without a dot.
SiteSlugs == UNION {[1..n -> Chars \ {"."}] : n \in 1..2}

\* The main domain as the configuration file gives it.
MainDomains == {<<"w">>, <<".", "w">>, <<"w", ".", "a">>}

\* str::starts_with and str::contains for one character.
starts_with(domain, char) == Len(domain) > 0 /\ domain[1] = char

contains(domain, char) == \E n \in 1..Len(domain) : domain[n] = char

\* str::strip_prefix: what follows the prefix, when the string starts with it.
strip_prefix(domain, prefix) ==
    IF /\ Len(domain) >= Len(prefix)
       /\ SubSeq(domain, 1, Len(prefix)) = prefix
    THEN Some(SubSeq(domain, Len(prefix) + 1, Len(domain)))
    ELSE None

\* prefix_domain: the domain with a leading dot.
prefix_domain(domain) ==
    IF starts_with(domain, ".") THEN domain ELSE <<".">> \o domain

\* DomainService::parse_canonical.
parse_canonical(config_main_domain, domain) ==
    LET stripped == strip_prefix(domain, config_main_domain)
    IN  IF stripped # None /\ contains(unwrap(stripped), ".")
        THEN None
        ELSE stripped

\* DomainService::get_canonical.
get_canonical(config_main_domain, site_slug) ==
    site_slug \o config_main_domain

\* Custom domains as a caller writes them.
CustomDomains == {<<"a">>, <<"w">>, <<"a", ".", "a">>}

\* A row of the site_domain table.
SiteDomainModel(domain, site_id) == [domain |-> domain, site_id |-> site_id]

\* DomainService::site_from_custom_domain_optional: the sites joined to
\* the rows of that domain.
site_from_custom_domain_optional(site_domains, domain) ==
    {row.site_id : row \in {r \in site_domains : r.domain = domain}}

\* A check that finds no domain registered.
custom_domain_never_exists(site_domains, domain) == FALSE

\* DomainService::custom_domain_exists.
custom_domain_exists(site_domains, domain) ==
    site_from_custom_domain_optional(site_domains, domain) # {}

\* DomainService::create_custom: the table after the call and its result.
create_custom(site_domains, domain, site_id) ==
    IF custom_domain_exists(site_domains, domain)
    THEN [site_domains |-> site_domains, result |-> Err("Conflict")]
    ELSE [site_domains |->
            site_domains \cup {SiteDomainModel(domain, site_id)},
          result |-> Returned(None)]

\* The rows_affected of SiteDomain::delete_by_id.
rows_affected(site_domains, domain) ==
    Cardinality({r \in site_domains : r.domain = domain})

\* A delete that reports success whatever it removed.
delete_custom_result_always_ok(affected) == Returned(None)

\* DomainService::delete_custom: what it returns for the rows it removed.
delete_custom_result(affected) ==
    IF affected = 1 THEN Returned(None) ELSE Err("NotFound")

\* A call of DomainService::parse_canonical.
ParseCanonical(domain) ==
    /\ response' = [op |-> "parse_canonical", domain |-> domain,
                    result |-> parse_canonical(main_domain, domain)]
    /\ UNCHANGED <<service_vars, page, page_category, page_revision,
                   render_vars, parse_vars>>

\* A call of DomainService::get_canonical.
GetCanonical(site_slug) ==
    /\ response' = [op |-> "get_canonical", site_slug |-> site_slug,
                    result |-> get_canonical(main_domain, site_slug)]
    /\ UNCHANGED <<service_vars, page, page_category, page_revision,
                   render_vars, parse_vars>>

\* A call of DomainService::create_custom.
CreateCustom(domain, site_id) ==
    LET r == create_custom(site_domain, domain, site_id)
    IN  /\ site_domain' = r.site_domains
        /\ response' = [op |-> "create_custom", domain |-> domain,
                        site_id |-> site_id, result |-> r.result]
        /\ UNCHANGED <<filter, main_domain, sequence, ids,
                       page, page_category, page_revision,
                       render_vars, parse_vars>>

\* A call of DomainService::delete_custom.
DeleteCustom(domain) ==
    /\ site_domain' = {r \in site_domain : r.domain # domain}
    /\ response' = [op |-> "delete_custom", domain |-> domain,
                    result |-> delete_custom_result(
                                 rows_affected(site_domain, domain))]
    /\ UNCHANGED <<filter, main_domain, sequence, ids,
                   page, page_category, page_revision,
                   render_vars, parse_vars>>

---------------------------------------------------------------------------
(* deepwell: the database seeder (database/seeder/mod.rs) *)

\* An i64 beyond the integers of the model checker is written as a count of
\* billions and a rest: Wide(3, 0) is 3000000000.
Billion == 1000000000

Wide(billions, rest) == <<billions, rest>>

\* The next value of a sequence after this one.
successor(value) ==
    IF value[2] + 1 = Billion
    THEN Wide(value[1] + 1, 0)
    ELSE Wide(value[1], value[2] + 1)

\* The values a sequence gives from a start on, count of them.
RECURSIVE values_from(_, _)
values_from(start, count) ==
    IF count = 0
    THEN {}
    ELSE {start} \cup values_from(successor(start), count - 1)

\* The value a sequence is at after giving count values from a start on.
RECURSIVE advanced(_, _)
advanced(start, count) ==
    IF count = 0 THEN start ELSE advanced(successor(start), count - 1)

\* a < b and a >= b for such values.
less(a, b) == a[1] < b[1] \/ (a[1] = b[1] /\ a[2] < b[2])

at_least(a, b) == ~less(a, b)

\* The classes of object that have a sequence the seeder restarts, and the
\* sequence of each.
Classes == {"user", "site", "page", "page_revision"}

sequence_name(class) ==
    CASE class = "user" -> "user_user_id_seq"
      [] class = "site" -> "site_site_id_seq"
      [] class = "page" -> "page_page_id_seq"
      [] class = "page_revision" -> "page_revision_revision_id_seq"

Sequences == {sequence_name(class) : class \in Classes}

\* The ID of the admin user, the first of the seed data.
ADMIN_USER_ID == Wide(0, 1)

\* How many users, sites and pages the seed data holds; a page is made
\* with its first revision.
SeedData == [user |-> 2, site |-> 1, page |-> 2, page_revision |-> 2]

\* The start values the sequences are given once seeding is done.
USER_ID_START == Wide(0, 10000000)

SITE_ID_START == Wide(0, 6000000)

PAGE_ID_START == Wide(3, 0)

PAGE_REVISION_ID_START == Wide(3, 0)

start_of(class) ==
    CASE class = "user" -> USER_ID_START
      [] class = "site" -> SITE_ID_START
      [] class = "page" -> PAGE_ID_START
      [] class = "page_revision" -> PAGE_REVISION_ID_START

\* A database as the migrations leave it: empty tables, sequences at 1.
FreshDatabase ==
    /\ sequence = [name \in Sequences |-> Wide(0, 1)]
    /\ ids = [class \in Classes |-> {}]

\* A row of a seeded table: its primary key, and whether the seeder made it.
Row(id, seeded) == [id |-> id, seeded |-> seeded]

keys(rows) == {row.id : row \in rows}

\* restart_sequence_with: ALTER SEQUENCE .. RESTART WITH the value.
restart_sequence_with(sequences, name, new_start_value) ==
    [sequences EXCEPT ![name] = new_start_value]

\* restart_sequence: the sequence returns to 1.
restart_sequence(sequences, name) ==
    restart_sequence_with(sequences, name, Wide(0, 1))

\* A seeder that takes seeding never to have been done.
seeding_never_done(rows) == FALSE

\* UserService::exists for the admin user.
seeding_done(rows) == ADMIN_USER_ID \in keys(rows["user"])

\* The sequences as the seeder resets them before it loads the seed data.
reset_sequences(sequences) ==
    restart_sequence(
      restart_sequence(
        restart_sequence(sequences, "user_user_id_seq"),
        "page_page_id_seq"),
      "site_site_id_seq")

\* A seeder that leaves the sequences where seeding left them.
sequences_left(sequences) == sequences

\* The sequences as the seeder restarts them after all seeding.
compatibility_sequences(sequences) ==
    restart_sequence_with(
      restart_sequence_with(
        restart_sequence_with(
          restart_sequence_with(sequences, "user_user_id_seq",
                                USER_ID_START),
          "site_site_id_seq", SITE_ID_START),
        "page_page_id_seq", PAGE_ID_START),
      "page_revision_revision_id_seq", PAGE_REVISION_ID_START)

\* The keys the seeded objects of a class get: the next values of the
\* class's sequence.
seeded_keys(sequences, class) ==
    values_from(sequences[sequence_name(class)], SeedData[class])

\* seed: the sequences and tables after the call and what it returns.  A
\* key that is taken fails the insert, and with it the whole transaction.
seed(sequences, rows) ==
    LET reset == reset_sequences(sequences)
        taken == \E class \in Classes :
                   seeded_keys(reset, class) \cap keys(rows[class]) # {}
        seeded == [class \in Classes |->
                     rows[class] \cup
                     {Row(id, TRUE) : id \in seeded_keys(reset, class)}]
        used == [name \in Sequences |->
                   LET class == CHOOSE c \in Classes :
                                  sequence_name(c) = name
                   IN  advanced(reset[name], SeedData[class])]
    IN  IF seeding_done(rows)
        THEN [sequence |-> sequences, ids |-> rows,
              result |-> Returned(None)]
        ELSE IF taken
        THEN [sequence |-> sequences, ids |-> rows,
              result |-> Err("Database")]
        ELSE [sequence |-> compatibility_sequences(used), ids |-> seeded,
              result |-> Returned(None)]

\* A run of the seeder.
Seed ==
    LET r == seed(sequence, ids)
    IN  /\ sequence' = r.sequence
        /\ ids' = r.ids
        /\ response' = [op |-> "seed", result |-> r.result]
        /\ UNCHANGED <<filter, site_domain, main_domain,
                       page, page_category, page_revision,
                       render_vars, parse_vars>>

\* The classes an object of a class is made with: a page is made with its
\* first revision.
made_with(class) ==
    IF class = "page" THEN {"page", "page_revision"} ELSE {class}

\* An object of a class is made through its service, besides the seeder:
\* each row takes the next value of its sequence as its key.
CreateObject(class) ==
    /\ Cardinality({row \in ids[class] : ~row.seeded}) < MaxCreated
    /\ \A c \in made_with(class) :
         sequence[sequence_name(c)] \notin keys(ids[c])
    /\ ids' = [c \in Classes |->
                 IF c \in made_with(class)
                 THEN ids[c] \cup {Row(sequence[sequence_name(c)], FALSE)}
                 ELSE ids[c]]
    /\ sequence' = [name \in Sequences |->
                      IF \E c \in made_with(class) : sequence_name(c) = name
                      THEN successor(sequence[name])
                      ELSE sequence[name]]
    /\ response' = [op |-> "create_object", class |-> class,
                    result |-> Returned(sequence[sequence_name(class)])]
    /\ UNCHANGED <<filter, site_domain, main_domain,
                   page, page_category, page_revision,
                   render_vars, parse_vars>>

---------------------------------------------------------------------------
(* Specifications *)

InitPasses(running, languages) ==
    /\ passes = running
    /\ ctx \in [Passes -> {NewContext(f, l) :
                             f \in FootnoteLists, l \in languages}]
    /\ \A p \in Passes \ running : ctx[p] = NewContext(<< >>, "en")
    /\ status = [p \in Passes |-> IF p \in running THEN "walking" ELSE "idle"]
    /\ walked = [p \in Passes |-> << >>]
    /\ lookups = [p \in Passes |-> << >>]
    /\ input = None
    /\ result = None
    /\ spelled = [n \in BlockNames |-> None]
    /\ NoDatabase
    /\ DefaultConfig

Init == InitPasses({1}, Languages)

\* Two passes at once; the language plays no part in how they interleave.
InitInterleaved == InitPasses({1, 2}, {"en"})

\* A walk over a tree the parser produced.
Next ==
    \E p \in Passes :
        \/ MoreRefs(p) /\ RenderFootnote(p)
        \/ \E title \in {None} \cup {Some(t) : t \in Titles} :
               RenderFootnoteBlock(p, title)
        \/ ~MoreRefs(p) /\ Finish(p)

\* A walk over any tree, also one with more references than bodies.
NextAnyTree ==
    \E p \in Passes :
        \/ RenderFootnote(p)
        \/ \E title \in {None} \cup {Some(t) : t \in Titles} :
               RenderFootnoteBlock(p, title)
        \/ Finish(p)

\* The parser at a block, no render pass running.
InitParse ==
    /\ passes = {}
    /\ ctx = [p \in Passes |-> NewContext(<< >>, "en")]
    /\ status = [p \in Passes |-> "idle"]
    /\ walked = [p \in Passes |-> << >>]
    /\ lookups = [p \in Passes |-> << >>]
    /\ input \in Inputs
    /\ result = None
    /\ spelled = [n \in BlockNames |-> None]
    /\ NoDatabase
    /\ DefaultConfig

NextParse == ParseNoSuchBlock \/ ParseDisallowedFlag \/ ParseBlock

\* One block, to be parsed under each spelling of its name.
InitSpellings ==
    /\ InitParse
    /\ input.name = "del"

NextSpellings == \E name \in BlockNames : ParseSpelling(name)

Spec == Init /\ [][Next]_vars

SpecParse == InitParse /\ [][NextParse]_vars

SpecSpellings == InitSpellings /\ [][NextSpellings]_vars

SpecAnyTree == Init /\ [][NextAnyTree]_vars

SpecInterleaved == InitInterleaved /\ [][Next]_vars

\* The page service on an empty database, no parser or render pass running.
InitPages ==
    /\ passes = {}
    /\ ctx = [p \in Passes |-> NewContext(<< >>, "en")]
    /\ status = [p \in Passes |-> "idle"]
    /\ walked = [p \in Passes |-> << >>]
    /\ lookups = [p \in Passes |-> << >>]
    /\ input = None
    /\ result = None
    /\ spelled = [n \in BlockNames |-> None]
    /\ NoDatabase
    /\ DefaultConfig

NextPages ==
    \/ \E site_id \in Sites, slug \in Slugs,
          bypass_filter \in BOOLEAN, verdict \in Verdicts :
          Create(site_id, slug, bypass_filter, verdict)
    \/ \E site_id \in Sites, reference \in References :
          Delete(site_id, reference)
    \/ \E site_id \in Sites, page_id \in 1..MaxPages,
          slug_option \in SlugOptions :
          Restore(site_id, page_id, slug_option)
    \/ \E site_id \in Sites, category \in CategoryOptions,
          deleted \in DeletedOptions :
          GetAllPages(site_id, category, deleted)

SpecPages == InitPages /\ [][NextPages]_vars

\* The filter service on an empty database.
NextFilters ==
    \/ \E site_id \in FilterSites, affects \in {{"page"}, {"user"}},
          regex \in Regexes :
          CreateFilter(site_id, affects, regex)
    \/ \E filter_id \in 1..MaxFilters : DeleteFilter(filter_id)
    \/ \E filter_id \in 1..MaxFilters : RestoreFilter(filter_id)
    \/ \E filter_class \in FilterClasses,
          filter_type \in {None, Some("page")},
          deleted \in DeletedOptions :
          GetAllFilters(filter_class, filter_type, deleted)
    \/ \E filter_class \in FilterClasses : GetMatcher(filter_class, "page")

SpecFilters == InitPages /\ [][NextFilters]_vars

\* Both services; neither reads or writes the tables of the other, so the
\* calls of one are followed on the empty tables of the other.
NextServices ==
    \/ filter = << >> /\ NextPages
    \/ page = << >> /\ NextFilters

SpecServices == InitPages /\ [][NextServices]_vars

\* The services of a deployment whose configuration names a main domain.
InitDomains ==
    /\ passes = {}
    /\ ctx = [p \in Passes |-> NewContext(<< >>, "en")]
    /\ status = [p \in Passes |-> "idle"]
    /\ walked = [p \in Passes |-> << >>]
    /\ lookups = [p \in Passes |-> << >>]
    /\ input = None
    /\ result = None
    /\ spelled = [n \in BlockNames |-> None]
    /\ NoDatabase
    /\ \E domain \in MainDomains : main_domain = prefix_domain(domain)

NextCanonical ==
    \/ \E domain \in Domains : ParseCanonical(domain)
    \/ \E site_slug \in SiteSlugs : GetCanonical(site_slug)

SpecCanonical == InitDomains /\ [][NextCanonical]_vars

NextCustomDomains ==
    \/ \E domain \in CustomDomains, site_id \in Sites :
          CreateCustom(domain, site_id)
    \/ \E domain \in CustomDomains : DeleteCustom(domain)

SpecCustomDomains == InitDomains /\ [][NextCustomDomains]_vars

\* The seeder and the services on a database fresh from the migrations.
InitSeeder ==
    /\ passes = {}
    /\ ctx = [p \in Passes |-> NewContext(<< >>, "en")]
    /\ status = [p \in Passes |-> "idle"]
    /\ walked = [p \in Passes |-> << >>]
    /\ lookups = [p \in Passes |-> << >>]
    /\ input = None
    /\ result = None
    /\ spelled = [n \in BlockNames |-> None]
    /\ page = << >>
    /\ page_category = << >>
    /\ page_revision = << >>
    /\ response = << >>
    /\ filter = << >>
    /\ site_domain = {}
    /\ DefaultConfig
    /\ FreshDatabase

NextSeeder ==
    \/ Seed
    \/ \E class \in {"user", "site", "page"} : CreateObject(class)

SpecSeeder == InitSeeder /\ [][NextSeeder]_vars

\* Pages that are made, moved and rolled back.
NextRollback ==
    \/ \E site_id \in Sites, slug \in Slugs,
          bypass_filter \in BOOLEAN, verdict \in Verdicts :
          Create(site_id, slug, bypass_filter, verdict)
    \/ \E site_id \in Sites, reference \in References, slug \in Slugs :
          Move(site_id, reference, slug)
    \/ \E site_id \in Sites, reference \in References,
          revision_number \in 0..(MaxRevisions - 1), changed \in BOOLEAN :
          Rollback(site_id, reference, revision_number, changed)

SpecRollback == InitPages /\ [][NextRollback]_vars

---------------------------------------------------------------------------
(* What the claims speak of *)

Html(p) == ctx[p].html

IsRef(h) == h.class = "wj-footnote-ref"

IsList(h) == h.class = "wj-footnotes-list"

IsRefNode(n) == n.element = "footnote"

IsBlockNode(n) == n.element = "footnote-block"

\* The number of reference spans among the first k entries of the output.
RECURSIVE RefsWritten(_, _)
RefsWritten(html, k) ==
    IF k = 0 THEN 0
    ELSE RefsWritten(html, k - 1) + (IF IsRef(html[k]) THEN 1 ELSE 0)

\* The bodies shown by the reference spans of the output, in order.
RECURSIVE BodiesShown(_)
BodiesShown(html) ==
    IF html = << >> THEN << >>
    ELSE LET front == SubSeq(html, 1, Len(html) - 1)
             last == html[Len(html)]
         IN  IF IsRef(last)
             THEN Append(BodiesShown(front), last.tooltip_contents)
             ELSE BodiesShown(front)

\* The bodies listed by a footnote-list block, in order.
BodiesListed(h) == [i \in 1..Len(h.items) |-> h.items[i].contents]

\* A pass rendered on its own: the render functions folded over the nodes.
RECURSIVE RenderAlone(_, _)
RenderAlone(c, nodes) ==
    IF nodes = << >> THEN c
    ELSE LET node == Head(nodes)
         IN  IF IsRefNode(node)
             THEN RenderAlone(render_footnote(c).ctx, Tail(nodes))
             ELSE RenderAlone(render_footnote_block(c, node.title),
                              Tail(nodes))

---------------------------------------------------------------------------
(* Claims *)

\* C1: within one render pass the Nth footnote reference rendered uses
\* index N: its marker, its ref id, its content id and its label carry N,
\* so indices start at 1, grow by one per reference and never repeat,
\* wherever list blocks stand between the references.
C1_NthReferenceHasIndexN ==
    \A p \in passes : \A k \in 1..Len(Html(p)) :
        IsRef(Html(p)[k]) =>
            LET n == RefsWritten(Html(p), k)
                h == Html(p)[k]
            IN  /\ h.marker = n
                /\ h.ref_id = <<"wj-footnote-ref-", n>>
                /\ h.content_id = <<"wj-footnote-", n>>
                /\ h.aria_label[3] = n

C1_Witness ==
    /\ Len(Html(1)) = 3
    /\ IsRef(Html(1)[1]) /\ IsList(Html(1)[2]) /\ IsRef(Html(1)[3])
    /\ Html(1)[3].marker = 2

\* C2: a footnote-list block holds exactly one item per body of the
\* context's footnote list, in the list's order; the item of the body at
\* 0-based position q is numbered q+1 and has id wj-footnote-(q+1).
C2_OneItemPerBody ==
    \A p \in passes : \A k \in 1..Len(Html(p)) :
        IsList(Html(p)[k]) =>
            LET items == Html(p)[k].items
            IN  /\ Len(items) = Len(ctx[p].footnotes)
                /\ \A q \in 0..(Len(items) - 1) :
                       /\ items[q + 1].contents = ctx[p].footnotes[q + 1]
                       /\ items[q + 1].number = q + 1
                       /\ items[q + 1].id = <<"wj-footnote-", q + 1>>

C2_Witness ==
    /\ Len(Html(1)) >= 1
    /\ IsList(Html(1)[Len(Html(1))])
    /\ Len(Html(1)[Len(Html(1))].items) = 2
    /\ Html(1)[Len(Html(1))].items[1].contents
           # Html(1)[Len(Html(1))].items[2].contents

\* C3 as stated: once the reference with index N is rendered, the footnote
\* list has exactly N entries (the reference appended its body as entry N).
C3_ListHasExactlyNEntries ==
    \A p \in passes :
        (Len(Html(p)) > 0 /\ IsRef(Html(p)[Len(Html(p))])) =>
            LET N == Html(p)[Len(Html(p))].marker
            IN  /\ Len(ctx[p].footnotes) = N
                /\ ctx[p].footnotes[N] = Html(p)[Len(Html(p))].tooltip_contents

\* C3 amended: rendering a footnote reference appends nothing to the
\* context's footnote list; the list stays as it was, and the reference
\* with index N shows entry N of it, so the list has at least N entries.
C3_ReferenceReadsEntryN ==
    [][\A p \in passes :
          /\ ctx'[p].footnotes = ctx[p].footnotes
          /\ (Len(ctx'[p].html) > Len(ctx[p].html)
              /\ IsRef(ctx'[p].html[Len(ctx'[p].html)])) =>
                 LET h == ctx'[p].html[Len(ctx'[p].html)]
                 IN  /\ h.marker \in 1..Len(ctx[p].footnotes)
                     /\ h.tooltip_contents = ctx[p].footnotes[h.marker]]_vars

C3_Witness ==
    /\ Len(ctx[1].footnotes) = 2
    /\ ctx[1].footnotes[1] # ctx[1].footnotes[2]
    /\ Len(Html(1)) = 1
    /\ IsRef(Html(1)[1])
    /\ Html(1)[1].marker = 1

\* C4: once the walk is over, every footnote-list block of the output has
\* one item per footnote reference of the document, with that reference's
\* body, whether the block was met before, between or after the references.
C4_BlockListsEveryReference ==
    \A p \in passes :
        status[p] = "done" =>
            \A k \in 1..Len(Html(p)) :
                IsList(Html(p)[k]) =>
                    /\ Len(Html(p)[k].items)
                           = RefsIn(walked[p], Len(walked[p]))
                    /\ BodiesListed(Html(p)[k]) = BodiesShown(Html(p))

C4_Witness ==
    /\ status[1] = "done"
    /\ Len(Html(1)) = 3
    /\ IsList(Html(1)[1]) /\ IsRef(Html(1)[2]) /\ IsRef(Html(1)[3])
    /\ Html(1)[2].tooltip_contents # Html(1)[3].tooltip_contents

\* C5 as stated: rendering a footnote reference never fails the render;
\* an index with no body in the footnote list gets a fallback, not a panic.
C5_ReferenceNeverPanics ==
    \A p \in passes : status[p] # "panicked"

C7_PassesAreIndependent ==
    \A p \in passes :
        /\ status[p] # "panicked"
        /\ ctx[p] = RenderAlone(
                        NewContext(ctx[p].footnotes, ctx[p].language),
                        walked[p])
        /\ \A k \in 1..Len(Html(p)) :
               /\ IsRef(Html(p)[k]) =>
                      /\ Html(p)[k].marker = RefsWritten(Html(p), k)
                      /\ Html(p)[k].tooltip_contents
                             = ctx[p].footnotes[RefsWritten(Html(p), k)]
               /\ IsList(Html(p)[k]) =>
                      BodiesListed(Html(p)[k]) = ctx[p].footnotes

C7_Witness ==
    /\ passes = {1, 2}
    /\ status[1] = "walking" /\ status[2] = "walking"
    /\ Len(Html(1)) = 2 /\ IsRef(Html(1)[1]) /\ IsRef(Html(1)[2])
    /\ Len(Html(2)) = 2 /\ IsRef(Html(2)[1]) /\ IsList(Html(2)[2])
    /\ ctx[1].footnotes # ctx[2].footnotes

\* C8: a footnote-list block shows the title it is given, unchanged; only
\* with no title does it ask the handle for 'footnote-block-title', in the
\* context's language, and show that message.
C8_TitleGivenOrLooked ==
    \A p \in passes :
        /\ \A k \in 1..Len(Html(p)) :
               IsBlockNode(walked[p][k]) =>
                   IF walked[p][k].title # None
                   THEN Html(p)[k].title = walked[p][k].title[1]
                   ELSE Html(p)[k].title
                            = (IF ctx[p].language = "en"
                               THEN "Footnotes" ELSE DefaultMessage)
        /\ Cardinality({i \in 1..Len(lookups[p]) :
                           lookups[p][i][2] = "footnote-block-title"})
               = Cardinality({k \in 1..Len(walked[p]) :
                                 /\ IsBlockNode(walked[p][k])
                                 /\ walked[p][k].title = None})
        /\ \A i \in 1..Len(lookups[p]) :
               lookups[p][i][1] = ctx[p].language

C8_Witness ==
    /\ Len(Html(1)) = 2
    /\ IsBlockNode(walked[1][1]) /\ walked[1][1].title = Some("Notes")
    /\ IsBlockNode(walked[1][2]) /\ walked[1][2].title = None
    /\ Html(1)[2].title = "Footnotes"

\* C9: with no message for 'footnote' or 'footnote-block-title' in the
\* active language, a reference and a block still render, with the default
\* string in place of the message.
C9_LookupMissFallsBack ==
    \A p \in passes :
        ctx[p].language \notin DOMAIN Messages =>
            /\ status[p] # "panicked"
            /\ Len(Html(p)) = Len(walked[p])
            /\ \A k \in 1..Len(Html(p)) :
                   /\ IsRef(Html(p)[k]) =>
                          /\ Html(p)[k].aria_label[1] = "?"
                          /\ Html(p)[k].tooltip_label[1] = "?"
                   /\ (IsList(Html(p)[k]) /\ walked[p][k].title = None) =>
                          Html(p)[k].title = "?"

C9_Witness ==
    /\ ctx[1].language = "xx"
    /\ status[1] = "done"
    /\ Len(Html(1)) = 2
    /\ IsRef(Html(1)[1])
    /\ IsList(Html(1)[2]) /\ walked[1][2].title = None

\* C10: parsing a deletion block whose body is plain inline text returns
\* exactly one Container of type Deletion whose children are the elements
\* of the body in order, an empty exception list, and paragraph-safe true.
C10_PlainDeletionParses ==
    (/\ result # None
     /\ input.name \in {"del", "deletion"}
     /\ ~input.star /\ ~input.score
     /\ \A n \in 1..Len(input.body) : input.body[n].kind = "text") =>
        /\ result.kind = "ok"
        /\ result.element.element = "Container"
        /\ result.element.ctype = "Deletion"
        /\ result.element.elements
               = [n \in 1..Len(input.body) |-> Text(input.body[n].text)]
        /\ result.exceptions = << >>
        /\ result.paragraph_safe = TRUE

C10_Witness ==
    /\ result # None
    /\ input.name = "del"
    /\ ~input.star /\ ~input.score /\ ~input.in_head
    /\ input.body = <<[kind |-> "text", text |-> "old"],
                      [kind |-> "text", text |-> "new"]>>
    /\ result.kind = "ok"
    /\ result.element.elements = <<Text("old"), Text("new")>>

---------------------------------------------------------------------------
(* What the parser claims speak of *)

\* parse_fn was run on the block at the parser's position.
DeletionParsed ==
    /\ result # None
    /\ input.name \in BLOCK_DEL.accepts_names
    /\ ~input.star /\ ~input.score

\* Whether an element may stand inside a paragraph: block-level elements
\* may not.
ElementParagraphSafe(e) == ~(e.element = "Container" /\ e.ctype = "Div")

\* The exceptions that reading the head of the block produces.
HeadExceptions ==
    {MalformedArgument(n) : n \in {m \in 1..Len(input.head) :
                                      ~input.head[m].well_formed}}

\* The exceptions that parsing the body of the block produces.
BodyExceptions ==
    {[kind |-> "NoRulesMatch", at |-> n] :
        n \in {m \in 1..Len(input.body) : input.body[m].kind = "malformed"}}

Range(seq) == {seq[n] : n \in 1..Len(seq)}

\* C11: the paragraph-safety returned for a deletion container is true
\* exactly when every child of its body is paragraph-safe (the rule itself
\* declares nothing that makes a deletion unsafe): one unsafe child makes
\* the container unsafe.
C11_SafeIffChildrenSafe ==
    (DeletionParsed /\ result.kind = "ok") =>
        (result.paragraph_safe
            <=> \A n \in 1..Len(result.element.elements) :
                    ElementParagraphSafe(result.element.elements[n]))

C11_Witness ==
    /\ DeletionParsed /\ result.kind = "ok"
    /\ Len(result.element.elements) = 2
    /\ ElementParagraphSafe(result.element.elements[1])
    /\ ~ElementParagraphSafe(result.element.elements[2])
    /\ result.paragraph_safe = FALSE

C13_DisallowedFlagIsException ==
    (/\ result # None
     /\ input.name \in BLOCK_DEL.accepts_names
     /\ (input.star \/ input.score)) =>
        /\ result.kind = "err"
        /\ result.error \in {"BlockDisallowsStar", "BlockDisallowsScore"}
        /\ DocumentOutcome(result) = "parsed"

C13_Witness ==
    /\ result # None
    /\ input.name = "deletion"
    /\ input.star /\ ~input.score
    /\ result = Err("BlockDisallowsStar")

\* C14 as stated: a malformed argument in the head of a deletion block
\* becomes an exception of the returned list and does not stop parsing: the
\* other arguments and the body are parsed and a Deletion container is
\* returned.
C14_MalformedArgumentCollected ==
    (/\ DeletionParsed
     /\ HeadExceptions # {}
     /\ \A n \in 1..Len(input.body) : input.body[n].kind # "deep") =>
        /\ result.kind = "ok"
        /\ result.element.ctype = "Deletion"
        /\ Len(result.element.elements) = Len(input.body)
        /\ \A n \in 1..Len(input.head) :
               input.head[n].well_formed =>
                   input.head[n].key \in DOMAIN result.element.attributes
        /\ HeadExceptions \subseteq Range(result.exceptions)

\* C15 as stated: the exception list returned for a deletion block holds
\* every exception of its head, every exception of its body, and nothing
\* else.
C15_ExceptionsOfHeadAndBody ==
    (DeletionParsed /\ result.kind = "ok") =>
        Range(result.exceptions) = HeadExceptions \cup BodyExceptions

\* C16: every key of the head map of a deletion block, known or not, is a
\* key of the container's attributes, with its value; none is dropped.
C16_HeadKeysAreAttributes ==
    (DeletionParsed /\ result.kind = "ok") =>
        \A n \in 1..Len(input.head) :
            input.head[n].well_formed =>
                /\ input.head[n].key \in DOMAIN result.element.attributes
                /\ result.element.attributes[input.head[n].key]
                       = input.head[n].value

C16_Witness ==
    /\ DeletionParsed /\ result.kind = "ok"
    /\ Len(input.head) = 2
    /\ input.head[1].key = "zzz" /\ input.head[2].key = "class"
    /\ result.element.attributes["zzz"] = "c"
    /\ result.element.attributes["class"] = "a"

\* C17: when the body of a deletion block goes beyond the recursion limit,
\* parse_fn returns the fatal condition and no element: no container with a
\* part of the body, and no exception in a returned list.
C17_RecursionLimitIsFatal ==
    (/\ DeletionParsed
     /\ \E n \in 1..Len(input.body) : input.body[n].kind = "deep") =>
        /\ result = Err("RecursionLimitExceeded")
        /\ DocumentOutcome(result) = "aborted"

C17_Witness ==
    /\ DeletionParsed
    /\ Len(input.body) = 2
    /\ input.body[1].kind = "text" /\ input.body[2].kind = "deep"
    /\ result.kind = "err"

\* C18: a block name that no registered rule accepts yields the
\* recoverable NoSuchBlock exception: the document around the block is
\* parsed on, and the condition is not fatal.
C18_UnknownNameIsException ==
    (result # None /\ input.name \notin BLOCK_DEL.accepts_names) =>
        /\ result = Err("NoSuchBlock")
        /\ DocumentOutcome(result) = "parsed"

C18_Witness ==
    /\ result # None
    /\ input.name = "ins"
    /\ Len(input.body) = 2
    /\ result = Err("NoSuchBlock")

---------------------------------------------------------------------------
(* The page service *)

\* The last call made to the page service was a call of op.
Called(r, op) == r # << >> /\ r.op = op

\* An extant page of the site holds the slug.
SlugHeld(pages, site_id, slug) ==
    \E n \in 1..Len(pages) : /\ pages[n].site_id = site_id
                             /\ pages[n].slug = slug
                             /\ pages[n].deleted_at = None

\* A deleted page of the site has the slug.
SlugOfDeleted(pages, site_id, slug) ==
    \E n \in 1..Len(pages) : /\ pages[n].site_id = site_id
                             /\ pages[n].slug = slug
                             /\ pages[n].deleted_at # None

\* C19: PageService::create fails with Error::Conflict when an extant page
\* of the site holds the normalized slug, and then inserts no page, no
\* category and no revision; when only deleted pages have that slug the
\* call does not fail with Conflict.
C19_CreateConflict ==
    [][Called(response', "create") =>
         LET held == SlugHeld(page, response'.site_id,
                              normalize(response'.slug))
         IN  /\ held => /\ response'.result = Err("Conflict")
                        /\ page' = page
                        /\ page_category' = page_category
                        /\ page_revision' = page_revision
             /\ ~held => response'.result # Err("Conflict")]_vars

\* A create was refused for a slug written differently from the slug of the
\* extant page that holds it, while a deleted page of that slug did not
\* stand in the way of that extant page's creation.
C19_Witness ==
    /\ Called(response, "create")
    /\ response.result = Err("Conflict")
    /\ response.slug # normalize(response.slug)
    /\ SlugHeld(page, response.site_id, normalize(response.slug))
    /\ SlugOfDeleted(page, response.site_id, normalize(response.slug))

\* C20: PageService::restore succeeds only for a page of the given site
\* that is deleted and whose target slug no extant page of the site holds.
\* Its checks run in this order: a page of another site gives NotFound, a
\* page that is not deleted gives BadRequest, a held slug gives Conflict;
\* every error leaves the page table as it was.
C20_RestoreChecks ==
    [][\A site_id \in Sites, slug_option \in SlugOptions :
         \A page_id \in 1..Len(page) :
         (/\ Called(response', "restore")
          /\ response'.page_id = page_id
          /\ Restore(site_id, page_id, slug_option)) =>
         LET row == page[page_id]
             slug == IF slug_option = None
                     THEN row.slug
                     ELSE unwrap(slug_option)
             of_site == row.site_id = site_id
             deleted == row.deleted_at # None
             held == SlugHeld(page, site_id, slug)
             res == response'.result
         IN  /\ res.kind = "ok" => (of_site /\ deleted /\ ~held)
             /\ ~of_site => res = Err("NotFound")
             /\ (of_site /\ ~deleted) => res = Err("BadRequest")
             /\ (of_site /\ deleted /\ held) => res = Err("Conflict")
             /\ res.kind = "err" => page' = page]_vars

\* A restore of a deleted page was refused because another page had taken
\* its slug in the meantime.
C20_Witness ==
    /\ Called(response, "restore")
    /\ response.result = Err("Conflict")
    /\ response.page_id \in 1..Len(page)
    /\ page[response.page_id].deleted_at # None
    /\ SlugHeld(page, page[response.page_id].site_id,
                page[response.page_id].slug)

\* The slug of the last revision of the page in the table.
LatestSlug(revisions, page_id) == get_latest(revisions, page_id).slug

\* C21: PageService::rollback never moves a page: the body of the revision
\* it creates has its slug unset, a revision it appends keeps the slug of
\* the page's last revision, and every row of the page table has the same
\* slug and the same category after the call as before it, whatever slug
\* the target revision had.
C21_RollbackNeverMoves ==
    [][(Called(response', "rollback") /\ response'.result.kind = "ok") =>
         /\ response'.body.slug = Unset
         /\ Len(page') = Len(page)
         /\ \A n \in 1..Len(page) :
              /\ page'[n].slug = page[n].slug
              /\ page'[n].page_category_id = page[n].page_category_id
         /\ page_category' = page_category
         /\ Len(page_revision') > Len(page_revision) =>
              LET made == page_revision'[Len(page_revision')]
              IN  made.slug = LatestSlug(page_revision, made.page_id)]_vars

\* A rollback made a revision for a target revision whose slug is not the
\* slug the page had in its last revision.
C21_Witness ==
    /\ Called(response, "rollback")
    /\ response.result.kind = "ok"
    /\ response.result.output # None
    /\ LET made == page_revision[Len(page_revision)]
           target == get_revision(page_revision, made.page_id,
                                  response.revision_number)
       IN  /\ made.revision_type = "regular"
           /\ target.kind = "ok"
           /\ target.output.slug # made.slug

\* The row is deleted (TRUE) or extant (FALSE) as the deleted argument asks.
AsAsked(deleted, row) ==
    /\ deleted = Some(TRUE) => row.deleted_at # None
    /\ deleted = Some(FALSE) => row.deleted_at = None

\* The pages a get_all of these arguments is to return.
PagesAsked(site_id, category, deleted) ==
    {n \in 1..Len(page) :
       /\ page[n].site_id = site_id
       /\ category # None =>
            page_category[page[n].page_category_id].slug =
                unwrap(category).slug
       /\ AsAsked(deleted, page[n])}

\* The filters a get_all of these arguments is to return.
FiltersAsked(filter_class, filter_type, deleted) ==
    {n \in 1..Len(filter) :
       /\ to_condition(filter_class, filter[n])
       /\ filter_type # None => unwrap(filter_type) \in filter[n].affects
       /\ AsAsked(deleted, filter[n])}

\* C22: after any sequence of create, delete and restore, get_all with
\* deleted = Some(true) returns only deleted rows, with Some(false) only
\* extant rows and with None the rows of either status, each time all such
\* rows its other arguments select; so for PageService::get_all and for
\* FilterService::get_all.
C22_GetAllByDeletion ==
    /\ (Called(response, "get_all") /\ response.result.kind = "ok") =>
         Range(response.result.output) =
             PagesAsked(response.site_id, response.category,
                        response.deleted)
    /\ Called(response, "filter.get_all") =>
         Range(response.result.output) =
             FiltersAsked(response.filter_class, response.filter_type,
                          response.deleted)

\* A get_all for the deleted pages of a site returned some, on a site that
\* has an extant page as well.
C22_Witness ==
    /\ Called(response, "get_all")
    /\ response.deleted = Some(TRUE)
    /\ response.result.kind = "ok"
    /\ response.result.output # << >>
    /\ \E n \in 1..Len(page) : /\ page[n].site_id = response.site_id
                               /\ page[n].deleted_at = None

\* An extant filter of that site (none for the platform) has that regex.
RegexTaken(filters, site_id, regex) ==
    \E n \in 1..Len(filters) : /\ filters[n].site_id = site_id
                               /\ filters[n].regex = regex
                               /\ filters[n].deleted_at = None

\* C23: FilterService::create returns BadRequest when the regex does not
\* compile and Conflict when an extant filter with the same site_id and
\* regex exists, and inserts no filter in either case.
C23_CreateRefused ==
    [][Called(response', "filter.create") =>
         /\ ~regex_compiles(response'.regex) =>
              /\ response'.result = Err("BadRequest")
              /\ filter' = filter
         /\ (/\ regex_compiles(response'.regex)
             /\ RegexTaken(filter, response'.site_id, response'.regex)) =>
              /\ response'.result = Err("Conflict")
              /\ filter' = filter]_vars

\* C24: FilterService::get_matcher builds its matcher from extant filters
\* only: its regexes and its summaries are those of the extant filters of
\* the class and type asked for, in one order; a deleted filter contributes
\* neither, and contributes both again once it is restored and so extant.
C24_MatcherOfExtant ==
    (Called(response, "filter.get_matcher")
     /\ response.result.kind = "ok") =>
        LET matcher == response.result.output
            extant == FiltersAsked(response.filter_class,
                                   Some(response.filter_type), Some(FALSE))
        IN  /\ Len(matcher.regexes) = Len(matcher.filter_data)
            /\ Cardinality(extant) = Len(matcher.filter_data)
            /\ {matcher.filter_data[k].filter_id :
                  k \in 1..Len(matcher.filter_data)} = extant
            /\ \A k \in 1..Len(matcher.filter_data) :
                 matcher.regexes[k] =
                     filter[matcher.filter_data[k].filter_id].regex

\* A matcher was built from an extant filter while a deleted filter of the
\* class and type asked for was in the table.
C24_Witness ==
    /\ Called(response, "filter.get_matcher")
    /\ response.result.kind = "ok"
    /\ response.result.output.filter_data # << >>
    /\ FiltersAsked(response.filter_class, Some(response.filter_type),
                    Some(TRUE)) # {}

---------------------------------------------------------------------------
(* The domain service *)

\* The domain is the subdomain followed by the main domain.
UnderMain(domain, subdomain) == domain = subdomain \o main_domain

\* C25: for every site slug without a '.', parse_canonical applied to
\* get_canonical(slug) returns Some(slug): the canonical domain of a site
\* yields the slug it was built from.
C25_CanonicalRoundTrip ==
    Called(response, "parse_canonical") =>
        \A site_slug \in SiteSlugs :
            response.domain = get_canonical(main_domain, site_slug) =>
                response.result = Some(site_slug)

\* C26: parse_canonical accepts only 1-deep subdomains of the main domain:
\* a domain it returns a slug for is that slug, without a '.', followed by
\* the main domain; a sub-subdomain and a domain that is not under the main
\* domain give None.
C26_OnlyOneDeepSubdomains ==
    (Called(response, "parse_canonical") /\ response.result # None) =>
        /\ UnderMain(response.domain, unwrap(response.result))
        /\ ~contains(unwrap(response.result), ".")

\* The sites a domain is registered to.
RegisteredTo(site_domains, domain) ==
    {r.site_id : r \in {x \in site_domains : x.domain = domain}}

\* C27: delete_custom returns Ok and removes the domain when it is
\* registered, and returns Error::NotFound and changes no registration
\* when it is not; the other domains stay registered as they were.
C27_DeleteCustom ==
    [][Called(response', "delete_custom") =>
         LET domain == response'.domain
         IN  /\ RegisteredTo(site_domain, domain) # {} =>
                  /\ response'.result.kind = "ok"
                  /\ site_domain' =
                       {r \in site_domain : r.domain # domain}
                  /\ RegisteredTo(site_domain', domain) = {}
             /\ RegisteredTo(site_domain, domain) = {} =>
                  /\ response'.result = Err("NotFound")
                  /\ site_domain' = site_domain]_vars

\* A registered domain was deleted while another domain stayed registered.
C27_Witness ==
    /\ Called(response, "delete_custom")
    /\ response.result.kind = "ok"
    /\ RegisteredTo(site_domain, response.domain) = {}
    /\ site_domain # {}

\* C28: after any sequence of create_custom and delete_custom each custom
\* domain is registered to at most one site, and a create_custom for a
\* registered domain returns Error::Conflict and leaves the table as it was.
C28_OneSitePerDomain ==
    /\ [](\A domain \in CustomDomains :
            Cardinality(RegisteredTo(site_domain, domain)) <= 1)
    /\ [][(Called(response', "create_custom")
           /\ RegisteredTo(site_domain, response'.domain) # {}) =>
             /\ response'.result = Err("Conflict")
             /\ site_domain' = site_domain]_vars

\* A create_custom for a domain registered to another site was refused.
C28_Witness ==
    /\ Called(response, "create_custom")
    /\ response.result = Err("Conflict")
    /\ RegisteredTo(site_domain, response.domain) # {}
    /\ response.site_id \notin RegisteredTo(site_domain, response.domain)

---------------------------------------------------------------------------
(* The seeder *)

\* The seeder has seeded this database.
Seeded == \E class \in Classes : \E row \in ids[class] : row.seeded

\* C29: seed is idempotent: run when the admin user already exists it
\* creates no user, site or page, restarts no sequence and returns Ok, so
\* a database that was seeded is the same after a further run of seed.
C29_SeedIdempotent ==
    [][Called(response', "seed") =>
         /\ ADMIN_USER_ID \in keys(ids["user"]) =>
              /\ ids' = ids
              /\ sequence' = sequence
              /\ response'.result.kind = "ok"
         /\ Seeded => (ids' = ids /\ sequence' = sequence
                       /\ response'.result.kind = "ok")]_vars

\* A run of seed returned Ok on a database that held objects made after it
\* was seeded.
C29_Witness ==
    /\ Called(response, "seed")
    /\ response.result.kind = "ok"
    /\ Seeded
    /\ \E row \in ids["user"] : ~row.seeded

\* C30: a seed that ran to its end leaves the user, site, page and
\* page-revision sequences at 10000000, 6000000, 3000000000 and
\* 3000000000; every object of those classes made afterwards gets an ID at
\* or above that start, which is the ID of no seeded object.
C30_SequencesRestarted ==
    /\ [][(Called(response', "seed") /\ ~Seeded /\ Seeded') =>
            \A class \in Classes :
                sequence'[sequence_name(class)] = start_of(class)]_vars
    /\ [](Seeded =>
            \A class \in Classes :
                /\ at_least(sequence[sequence_name(class)], start_of(class))
                /\ \A row \in ids[class] :
                     /\ ~row.seeded => at_least(row.id, start_of(class))
                     /\ row.seeded => less(row.id, start_of(class)))

\* A page was made after seeding, with its first revision.
C30_Witness ==
    /\ Seeded
    /\ \E row \in ids["page"] : ~row.seeded /\ row.id = PAGE_ID_START
    /\ \E row \in ids["page_revision"] :
         ~row.seeded /\ row.id = PAGE_REVISION_ID_START
    /\ \E row \in ids["user"] : ~row.seeded

====
